---- MODULE Spec2Model ----
(***************************************************************************)
(* A model of barchart/common-node-js.                                     *)
(*                                                                         *)
(*  - DynamoScanReader (src/aws/dynamo/stream/DynamoScanReader.js 24-96):  *)
(*    a Stream.Readable whose _read handler pages through a DynamoDB scan. *)
(*    Each handler (the _read call, the fulfilment and the rejection of    *)
(*    the scanChunk promise, the process.nextTick callback) runs to        *)
(*    completion and is one action.                                        *)
(*  - Table (src/aws/dynamo/schema/serialization/attributes/               *)
(*    EncryptedJsonSerializer.js 43-136): validate().                      *)
(***************************************************************************)
EXTENDS Integers, Sequences, FiniteSets, TLC

\* ------------------------------------------------------------------ bounds
MaxPages == 3
MaxItems == 2
MaxPulls == 4
MaxEntries == 4
MaxStrLen == 2
MaxStarts == 3
MaxComponents == 2
MaxMessages == 2
MaxListPages == 2
MaxNames == 1

VARIABLES
    scan,        \* the scan as the provider serves it: item count of each page
    previous,    \* this._previous
    scanned,     \* this._scanned
    reading,     \* this._reading
    error,       \* this._error
    pending,     \* the scanChunk promises that have not settled (their argument)
    calls,       \* every scanChunk call made so far (its argument), in order
    out,         \* what the reader handed to the stream: push / emit calls
    ticks,       \* process.nextTick callbacks queued and not yet run
    pulls,       \* number of _read calls so far
    lastPush,    \* the return value of the latest this.push(results.results)
    refused,     \* number of 'Unable to continue reading' lines logged
    table,       \* the Table instance: _name, _keys, _indices, _provisionedThroughput
    outcome,     \* the result of the latest Table.validate() call
    schema,      \* what the latest Table.toTableSchema() call returned
    serializer,  \* the serializer under test: its class and its attribute
    input,       \* the value given to serialize
    serialized,  \* what serialize returned
    deserialized, \* what deserialize returned
    startPromise, \* DynamoProvider._startPromise: the promise, or NoPromise
    promises,    \* the number of promises start() has created
    stage,       \* how far the callbacks of the start promise have got
    started,     \* DynamoProvider._started
    dynamo,      \* the number of clients assigned to DynamoProvider._dynamo
    disposed,    \* Disposable.getIsDisposed()
    starts,      \* what each start() call gave its caller
    request,     \* how far the getTables() call has got
    listCalls,   \* the options of each listTables call
    listed,      \* the table names of each page that listTables answered with
    failedLevel, \* the getTablesRecursive call whose promise rejected unhandled
    unwinding,   \* the innermost getTablesRecursive call whose promise resolved
    more,        \* the names that promise resolved with
    tablesOutcome, \* how the promise of getTables() settled
    builder,     \* the LambdaBuilder configuration the handler was built from
    phase,       \* the callback of the handler's promise chain that runs next
    initializing, \* the component initializers have been scheduled
    components,  \* the state of each component initializer's promise
    disposals,   \* the number of dispose() calls on each component
    messages,    \* the state of each messageProcessor.process promise
    processed,   \* the number of messageProcessor.process calls
    runResults,  \* the results handed to the output transformer
    output,      \* the output of the output transformer
    callbacks,   \* the completion callback's invocations
    environment, \* LambdaBuilder._environment
    messageExtractor, \* LambdaBuilder._messageExtractor
    messageProcessor, \* LambdaBuilder._messageProcessor
    outputTransformer, \* LambdaBuilder._outputTransformer
    componentInitializers, \* LambdaBuilder._componentInitializers
    lastCall     \* the latest call of a builder method and whether it threw

readerVars == <<scan, previous, scanned, reading, error, pending, calls, out,
                ticks, pulls, lastPush, refused>>
tableVars == <<table, outcome, schema>>
serializerVars == <<serializer, input, serialized, deserialized>>
lifecycleVars ==
    <<startPromise, promises, stage, started, dynamo, disposed, starts>>
tablesVars ==
    <<request, listCalls, listed, failedLevel, unwinding, more, tablesOutcome>>
providerVars == <<lifecycleVars, tablesVars>>
lambdaVars ==
    <<builder, phase, initializing, components, disposals, messages,
      processed, runResults, output, callbacks>>
configuration ==
    <<environment, messageExtractor, messageProcessor, outputTransformer,
      componentInitializers>>
builderVars == <<configuration, lastCall>>
vars == <<scan, previous, scanned, reading, error, pending, calls, out,
          ticks, pulls, lastPush, refused, table, outcome, schema,
          serializer, input, serialized, deserialized,
          startPromise, promises, stage, started, dynamo, disposed, starts,
          request, listCalls, listed, failedLevel, unwinding, more,
          tablesOutcome,
          builder, phase, initializing, components, disposals, messages,
          processed, runResults, output, callbacks,
          environment, messageExtractor, messageProcessor, outputTransformer,
          componentInitializers, lastCall>>

\* what an action of one component leaves alone
notReader == <<tableVars, serializerVars, providerVars, lambdaVars, builderVars>>
notTable == <<readerVars, serializerVars, providerVars, lambdaVars, builderVars>>
notSerializer == <<readerVars, tableVars, providerVars, lambdaVars, builderVars>>
notProvider == <<readerVars, tableVars, serializerVars, lambdaVars, builderVars>>
notLambda == <<readerVars, tableVars, serializerVars, providerVars, builderVars>>
notBuilder == <<readerVars, tableVars, serializerVars, providerVars, lambdaVars>>

\* ------------------------------------------------------------ scan reader
NoKey == 0

\* this._previous = null: no page has been fetched
Null == [page |-> 0, startKey |-> NoKey, count |-> 0]

EndSignal == [type |-> "end", page |-> 0, count |-> 0]
ErrorSignal == [type |-> "error", page |-> 0, count |-> 0]

Batch(results) == [type |-> "data", page |-> results.page, count |-> results.count]

\* The provider's answer to scanChunk(scan, arg): the page that follows the
\* start key carried by arg, with a start key of its own unless it is the last.
ScanChunk(arg) ==
    LET i == IF arg.startKey = NoKey THEN 1 ELSE arg.startKey + 1
    IN  [page |-> i,
         startKey |-> IF i < Len(scan) THEN i ELSE NoKey,
         count |-> scan[i]]

\* a reader that restarts the scan on every call
ScanArgNull(prev) == Null

\* the second argument of this._provider.scanChunk
ScanArg(prev) == prev

\* a reader that never takes the scan to be over
NoMoreResultsNever(prev) == FALSE

\* a reader that takes "no page yet" for "no more pages"
NoMoreResultsNoNullCheck(prev) == prev.startKey = NoKey

\* this._previous !== null && !this._previous.startKey
NoMoreResults(prev) == prev # Null /\ prev.startKey = NoKey

\* a reader that pushes every page, empty or not
HasResultsAlways(results) == TRUE

\* results.results.length !== 0
HasResults(results) == results.count # 0

\* a reader without the reentrancy guard
NoReentrancyGuard == error

\* a reader without the error guard
NoErrorGuard == reading

\* the guards at the top of _read
ReadReturnsEarly == reading \/ error

\* a reader that pauses whatever push returns
PushDeclined(accept) == FALSE

\* a reader that ignores what push returns
PushIgnored(accept) == TRUE

\* this._reading = this.push(results.results)
PushResult(accept) == accept

\* a reader that forgets the last page once it has signalled the end
ScanChunkRecursiveReset(prev, o, p) ==
    IF NoMoreResults(prev)
    THEN /\ reading' = FALSE
         /\ previous' = Null
         /\ out' = Append(o, EndSignal)
         /\ pending' = p
         /\ UNCHANGED calls
    ELSE /\ reading' = TRUE
         /\ previous' = prev
         /\ out' = o
         /\ pending' = Append(p, ScanArg(prev))
         /\ calls' = Append(calls, ScanArg(prev))

\* scanChunkRecursive, entered with this._reading set, this._previous = prev,
\* the stream having been handed the calls in o and p the unsettled promises.
ScanChunkRecursive(prev, o, p) ==
    IF NoMoreResults(prev)
    THEN /\ reading' = FALSE
         /\ previous' = prev
         /\ out' = Append(o, EndSignal)
         /\ pending' = p
         /\ UNCHANGED calls
    ELSE /\ reading' = TRUE
         /\ previous' = prev
         /\ out' = o
         /\ pending' = Append(p, ScanArg(prev))
         /\ calls' = Append(calls, ScanArg(prev))

\* _read(size)
Read ==
    /\ pulls' = pulls + 1
    /\ IF ReadReturnsEarly
       THEN /\ refused' = IF reading THEN refused ELSE refused + 1
            /\ UNCHANGED <<previous, scanned, reading, error, pending, calls, out>>
       ELSE /\ ScanChunkRecursive(previous, out, pending)
            /\ UNCHANGED <<scanned, error, refused>>
    /\ UNCHANGED <<scan, ticks, lastPush, notReader>>

\* the consumer (the stream) asks for data
Pull ==
    /\ pulls < MaxPulls
    /\ Read

\* a reader that counts pages instead of items
ScannedPages(n, results) == n + 1

\* this._scanned = this._scanned + results.results.length
Scanned(n, results) == n + results.count

\* the .then handler of the scanChunk promise; accept is what this.push returns
ResolveWith(accept) ==
    /\ pending # <<>>
    /\ LET results == ScanChunk(Head(pending))
           pushed == HasResults(results)
           o == IF pushed THEN Append(out, Batch(results)) ELSE out
           r == IF pushed THEN PushResult(accept) ELSE reading
       IN  /\ scanned' = IF pushed THEN Scanned(scanned, results) ELSE scanned
           /\ lastPush' = IF pushed
                          THEN (IF accept THEN "accepted" ELSE "declined")
                          ELSE lastPush
           /\ IF r
              THEN ScanChunkRecursive(results, o, Tail(pending))
              ELSE /\ reading' = FALSE
                   /\ previous' = results
                   /\ out' = o
                   /\ pending' = Tail(pending)
                   /\ UNCHANGED calls
    /\ UNCHANGED <<scan, error, ticks, pulls, refused, notReader>>

\* the scanChunk promise is fulfilled; the stream accepts or declines the push
Resolve == \E accept \in BOOLEAN : ResolveWith(accept)

\* a catch handler that does not end the stream
CatchSignalsNoEnd(o) == o

\* what the .catch handler hands to the stream: this.push(null)
CatchSignals(o) == Append(o, EndSignal)

\* the .catch handler of the scanChunk promise
Reject ==
    /\ pending # <<>>
    /\ pending' = Tail(pending)
    /\ reading' = FALSE
    /\ error' = TRUE
    /\ out' = CatchSignals(out)
    /\ ticks' = ticks + 1
    /\ UNCHANGED <<scan, previous, scanned, calls, pulls, lastPush, refused,
                   notReader>>

\* the process.nextTick callback: this.emit('error', e)
Tick ==
    /\ ticks > 0
    /\ ticks' = ticks - 1
    /\ out' = Append(out, ErrorSignal)
    /\ UNCHANGED <<scan, previous, scanned, reading, error, pending, calls,
                   pulls, lastPush, refused, notReader>>

Scans == UNION {[1..n -> 0..MaxItems] : n \in 1..MaxPages}

\* the constructor
ReaderInit ==
    /\ scan \in Scans
    /\ previous = Null
    /\ scanned = 0
    /\ reading = FALSE
    /\ error = FALSE
    /\ pending = <<>>
    /\ calls = <<>>
    /\ out = <<>>
    /\ ticks = 0
    /\ pulls = 0
    /\ lastPush = "none"
    /\ refused = 0

\* ---------------------------------------------------- attribute serializers
\* Strings are sequences of Unicode scalar values; buffers are sequences of
\* bytes.
Alphabet == {97, 233, 8364}

Strings == UNION {[1..n -> Alphabet] : n \in 0..MaxStrLen}

EncryptionTypes == {"AES_192", "AES_256"}

Passwords == {1, 2}

\* an attribute constructed without an encryptor
NoEncryptor == [type |-> "none"]

Encryptors == [type : EncryptionTypes, key : Passwords]

Attributes == [encryptor : Encryptors \cup {NoEncryptor}]

SerializerClasses ==
    {"EncryptedStringSerializer", "EncryptedJsonSerializer",
     "CompressedJsonSerializer"}

\* an encoding of one byte for each character
Latin1(cp) == <<cp % 256>>

\* the text encoding of a string into a buffer
Utf8(cp) ==
    IF cp < 128 THEN <<cp>>
    ELSE IF cp < 2048 THEN <<192 + (cp \div 64), 128 + (cp % 64)>>
    ELSE <<224 + (cp \div 4096), 128 + ((cp \div 64) % 64), 128 + (cp % 64)>>

RECURSIVE Utf8Encode(_)
Utf8Encode(s) ==
    IF s = <<>> THEN <<>> ELSE Utf8(Head(s)) \o Utf8Encode(Tail(s))

Continuation(b, i) == i <= Len(b) /\ b[i] >= 128 /\ b[i] < 192

\* the text decoding of a buffer; an ill-formed sequence decodes to U+FFFD
RECURSIVE Utf8Decode(_)
Utf8Decode(b) ==
    IF b = <<>> THEN <<>>
    ELSE IF b[1] < 128 THEN <<b[1]>> \o Utf8Decode(Tail(b))
    ELSE IF b[1] >= 192 /\ b[1] < 224 /\ Continuation(b, 2)
        THEN <<(b[1] - 192) * 64 + (b[2] - 128)>>
             \o Utf8Decode(SubSeq(b, 3, Len(b)))
    ELSE IF b[1] >= 224 /\ b[1] < 240 /\ Continuation(b, 2) /\ Continuation(b, 3)
        THEN <<(b[1] - 224) * 4096 + (b[2] - 128) * 64 + (b[3] - 128)>>
             \o Utf8Decode(SubSeq(b, 4, Len(b)))
    ELSE <<65533>> \o Utf8Decode(Tail(b))

\* the cipher: a stream of pad bytes that depends on the algorithm, on the
\* password and on the position
Pad(encryptor, i) ==
    ((IF encryptor.type = "AES_192" THEN 192 ELSE 0) + 31 * encryptor.key + 7 * i)
        % 256

Encrypt(bytes, encryptor) ==
    [i \in 1..Len(bytes) |-> (bytes[i] + Pad(encryptor, i)) % 256]

Decrypt(bytes, encryptor) ==
    [i \in 1..Len(bytes) |-> (bytes[i] + 256 - Pad(encryptor, i)) % 256]

\* the length of the run of equal bytes a buffer starts with
RECURSIVE Run(_)
Run(b) ==
    IF Len(b) >= 2 /\ b[2] = b[1] THEN 1 + Run(Tail(b)) ELSE 1

\* compression: each run of equal bytes becomes its length and its byte
RECURSIVE Compress(_)
Compress(b) ==
    IF b = <<>> THEN <<>>
    ELSE <<Run(b), b[1]>> \o Compress(SubSeq(b, Run(b) + 1, Len(b)))

RECURSIVE Decompress(_)
Decompress(b) ==
    IF Len(b) < 2 THEN <<>>
    ELSE [i \in 1..b[1] |-> b[2]] \o Decompress(SubSeq(b, 3, Len(b)))

\* JSON.stringify and JSON.parse of a string value
Stringify(s) == <<34>> \o Utf8Encode(s) \o <<34>>

Parse(b) == Utf8Decode(SubSeq(b, 2, Len(b) - 1))

NotSerialized == [tag |-> "none"]

NotDeserialized == [state |-> "none"]

ConfigurationError == [tag |-> "ConfigurationError"]

ConfigurationErrorThrown == [state |-> "ConfigurationError"]

Binary(bytes) == [tag |-> "B", B |-> bytes]

Returned(s) == [state |-> "returned", value |-> s]

\* CompressedJsonSerializer._getEncryptor(): the compressed pipeline has no
\* encryption step
NoEncryption == [type |-> "plain"]

\* a subclass that does not override _getEncryptor
GetEncryptorInherited(s) == NoEncryption

\* serializer._getEncryptor()
GetEncryptor(s) ==
    IF s.class = "EncryptedJsonSerializer" THEN s.attribute.encryptor
    ELSE NoEncryption

\* CompressedJsonSerializer.serialize(value), inherited by
\* EncryptedJsonSerializer
SerializeJson(s, v) ==
    IF GetEncryptor(s) = NoEncryption THEN Binary(Compress(Stringify(v)))
    ELSE IF GetEncryptor(s) = NoEncryptor THEN ConfigurationError
    ELSE Binary(Encrypt(Compress(Stringify(v)), GetEncryptor(s)))

\* CompressedJsonSerializer.deserialize(value), inherited by
\* EncryptedJsonSerializer
DeserializeJson(s, r) ==
    IF GetEncryptor(s) = NoEncryption THEN Returned(Parse(Decompress(r.B)))
    ELSE IF GetEncryptor(s) = NoEncryptor THEN ConfigurationErrorThrown
    ELSE Returned(Parse(Decompress(Decrypt(r.B, GetEncryptor(s)))))

\* EncryptedStringSerializer.serialize(value)
SerializeString(s, v) ==
    IF s.attribute.encryptor = NoEncryptor THEN ConfigurationError
    ELSE Binary(Encrypt(Utf8Encode(v), s.attribute.encryptor))

\* EncryptedStringSerializer.deserialize(value)
DeserializeString(s, r) ==
    IF s.attribute.encryptor = NoEncryptor THEN ConfigurationErrorThrown
    ELSE Returned(Utf8Decode(Decrypt(r.B, s.attribute.encryptor)))

SerializeValue(s, v) ==
    IF s.class = "EncryptedStringSerializer" THEN SerializeString(s, v)
    ELSE SerializeJson(s, v)

DeserializeValue(s, r) ==
    IF s.class = "EncryptedStringSerializer" THEN DeserializeString(s, r)
    ELSE DeserializeJson(s, r)

\* the record of a value that a serializer of the same class, configured with
\* an encryptor, wrote earlier
Stored(s, e, v) == SerializeValue([class |-> s.class, attribute |-> [encryptor |-> e]], v)

\* serialized = serializer.serialize(value)
Serialize ==
    /\ serialized = NotSerialized
    /\ deserialized = NotDeserialized
    /\ serialized' = SerializeValue(serializer, input)
    /\ UNCHANGED <<serializer, input, deserialized, notSerializer>>

\* deserialized = serializer.deserialize(serialized)
Deserialize ==
    /\ serialized.tag = "B"
    /\ deserialized = NotDeserialized
    /\ deserialized' = DeserializeValue(serializer, serialized)
    /\ UNCHANGED <<serializer, input, serialized, notSerializer>>

\* serializer.deserialize(record) of a record read from the table, written
\* with the encryptor of the attribute, or with any encryptor when the
\* attribute has none
DeserializeStored ==
    /\ serialized.tag # "B"
    /\ deserialized = NotDeserialized
    /\ \E e \in Encryptors :
        /\ serializer.attribute.encryptor \in {e, NoEncryptor}
        /\ deserialized' = DeserializeValue(serializer, Stored(serializer, e, input))
    /\ UNCHANGED <<serializer, input, serialized, notSerializer>>

\* no serializer is under test
NoSerializer ==
    [class |-> "CompressedJsonSerializer", attribute |-> [encryptor |-> NoEncryptor]]

SerializerIdle ==
    /\ serializer = NoSerializer
    /\ input = <<>>
    /\ serialized = NotSerialized
    /\ deserialized = NotDeserialized

\* ------------------------------------------------------------ DynamoProvider
\* this._startPromise === null
NoPromise == 0

\* a start() that does not look at this._startPromise
StartPromiseIsNullAlways == TRUE

StartPromiseIsNull == startPromise = NoPromise

\* what a start() call gave its caller, and how far the initialization had
\* got when it was called
StartThrew == [threw |-> TRUE, promise |-> NoPromise, stage |-> stage]

StartReturned(p) == [threw |-> FALSE, promise |-> p, stage |-> stage]

\* provider.start()
Start ==
    /\ Len(starts) < MaxStarts
    /\ IF disposed
       THEN /\ starts' = Append(starts, StartThrew)
            /\ UNCHANGED <<startPromise, promises, stage>>
       ELSE /\ IF StartPromiseIsNull
               THEN /\ promises' = promises + 1
                    /\ startPromise' = promises + 1
                    /\ stage' = "created"
               ELSE UNCHANGED <<startPromise, promises, stage>>
            /\ starts' = Append(starts, StartReturned(startPromise'))
    /\ UNCHANGED <<started, dynamo, disposed, tablesVars, notProvider>>

\* the first then() callback of start(): the region is configured and the
\* client is constructed, or one of the two throws
StartAcquire ==
    /\ stage = "created"
    /\ \/ /\ dynamo' = dynamo + 1
          /\ stage' = "acquired"
       \/ /\ stage' = "failing"
          /\ UNCHANGED dynamo
    /\ UNCHANGED <<startPromise, promises, started, disposed, starts, tablesVars, notProvider>>

\* the second then() callback of start()
StartComplete ==
    /\ stage = "acquired"
    /\ started' = TRUE
    /\ stage' = "completed"
    /\ UNCHANGED <<startPromise, promises, dynamo, disposed, starts, tablesVars, notProvider>>

\* the promise that start() returned, the one catch() gave, resolves with the
\* value of the second callback
StartResolve ==
    /\ stage = "completed"
    /\ stage' = "resolved"
    /\ UNCHANGED <<startPromise, promises, started, dynamo, disposed, starts, tablesVars, notProvider>>

\* the catch() callback of start(): the error is logged and thrown again
StartCatch ==
    /\ stage = "failing"
    /\ stage' = "rejected"
    /\ UNCHANGED <<startPromise, promises, started, dynamo, disposed, starts, tablesVars, notProvider>>

\* provider.dispose(): Disposable runs _onDispose() on the first call only
Dispose ==
    /\ ~disposed
    /\ disposed' = TRUE
    /\ UNCHANGED <<startPromise, promises, stage, started, dynamo, starts, tablesVars, notProvider>>

\* the table names of the store; the provider's prefix is "p"
TableNameSet == {"pa", "pb", "x"}

\* name.startsWith(this._configuration.prefix)
StartsWithPrefix(name) == name \in {"pa", "pb"}

\* the pages a listTables call can answer with
Pages == UNION {[1..n -> TableNameSet] : n \in 0..MaxNames}

\* no ExclusiveStartTableName, no LastEvaluatedTableName
NoName == ""

\* data.TableNames.filter(name => name.startsWith(prefix))
Matches(names) == SelectSeq(names, StartsWithPrefix)

NoTables == [state |-> "none"]

TablesResolved(names) == [state |-> "resolved", tables |-> names]

TablesRejected(message) == [state |-> "rejected", message |-> message]

\* a getTables() that does not look at this._started
NotStartedNever == FALSE

\* !this._started
NotStarted == ~started

\* provider.getTables(): the promise is returned, its callback is queued
GetTables ==
    /\ request = "none"
    /\ request' = "called"
    /\ UNCHANGED <<listCalls, listed, failedLevel, unwinding, more,
                   tablesOutcome, lifecycleVars, notProvider>>

\* the then() callback of getTables(): the two tests, then the first
\* getTablesRecursive() call, which calls listTables without a start name
GetTablesCheck ==
    /\ request = "called"
    /\ IF disposed
       THEN /\ request' = "rejected"
            /\ tablesOutcome' = TablesRejected("The Dynamo Provider has been disposed.")
            /\ UNCHANGED listCalls
       ELSE IF NotStarted
       THEN /\ request' = "rejected"
            /\ tablesOutcome' = TablesRejected("The Dynamo Provider has not been started.")
            /\ UNCHANGED listCalls
       ELSE /\ request' = "listing"
            /\ listCalls' = <<[ExclusiveStartTableName |-> NoName]>>
            /\ UNCHANGED tablesOutcome
    /\ UNCHANGED <<listed, failedLevel, unwinding, more, lifecycleVars, notProvider>>

\* a listTables call has not been answered
Listing ==
    /\ request = "listing"
    /\ failedLevel = 0
    /\ unwinding = 0
    /\ Len(listCalls) = Len(listed) + 1

\* the rejection of the promise of a getTablesRecursive call is handled: only
\* the outermost call's promise is returned to the caller of getTables
RejectionHandled(level) == level = 1

\* the listTables callback with an error: rejectCallback
ListTablesError ==
    /\ Listing
    /\ IF RejectionHandled(Len(listCalls))
       THEN /\ request' = "rejected"
            /\ tablesOutcome' = TablesRejected("Failed to retrieve DynamoDB tables")
            /\ UNCHANGED failedLevel
       ELSE /\ failedLevel' = Len(listCalls)
            /\ UNCHANGED <<request, tablesOutcome>>
    /\ UNCHANGED <<listCalls, listed, unwinding, more, lifecycleVars, notProvider>>

\* the listTables callback with a page that is not the last one:
\* getTablesRecursive(data.LastEvaluatedTableName)
ListTablesMore ==
    /\ Listing
    /\ Len(listCalls) < MaxListPages
    /\ \E names \in Pages \ {<<>>} :
        /\ listed' = Append(listed, names)
        /\ listCalls' = Append(listCalls,
                               [ExclusiveStartTableName |-> names[Len(names)]])
    /\ UNCHANGED <<request, failedLevel, unwinding, more, tablesOutcome,
                   lifecycleVars, notProvider>>

\* the listTables callback with the last page: resolveCallback(matches)
ListTablesLast ==
    /\ Listing
    /\ \E names \in Pages :
        /\ listed' = Append(listed, names)
        /\ IF Len(listCalls) = 1
           THEN /\ request' = "resolved"
                /\ tablesOutcome' = TablesResolved(Matches(names))
                /\ UNCHANGED <<unwinding, more>>
           ELSE /\ unwinding' = Len(listCalls)
                /\ more' = Matches(names)
                /\ UNCHANGED <<request, tablesOutcome>>
    /\ UNCHANGED <<listCalls, failedLevel, lifecycleVars, notProvider>>

\* the then() callback on an inner getTablesRecursive call:
\* resolveCallback(matches.concat(more))
Concat ==
    /\ request = "listing"
    /\ unwinding > 1
    /\ unwinding' = unwinding - 1
    /\ more' = Matches(listed[unwinding - 1]) \o more
    /\ IF unwinding - 1 = 1
       THEN /\ request' = "resolved"
            /\ tablesOutcome' = TablesResolved(more')
       ELSE UNCHANGED <<request, tablesOutcome>>
    /\ UNCHANGED <<listCalls, listed, failedLevel, lifecycleVars, notProvider>>

\* no getTables() call has been made
NoRequest ==
    /\ request = "none"
    /\ listCalls = <<>>
    /\ listed = <<>>
    /\ failedLevel = 0
    /\ unwinding = 0
    /\ more = <<>>
    /\ tablesOutcome = NoTables

\* new DynamoProvider(configuration)
ProviderInit ==
    /\ startPromise = NoPromise
    /\ promises = 0
    /\ stage = "none"
    /\ started = FALSE
    /\ dynamo = 0
    /\ disposed = FALSE
    /\ starts = <<>>
    /\ NoRequest

\* ------------------------------------------------- LambdaBuilder: methods
\* this._x = null
NotDefined == "null"

\* an argument that fails the method's assert.argumentIsRequired
Invalid == "invalid"

Environments == {"e1", "e2"}

Functions == {"f1", "f2"}

ComponentNames == {"a", "b"}

\* MessageProcessor.fromFunction(messageProcessor)
FromFunction(f) == [kind |-> "processor", fn |-> f]

\* new MessageRouter()
NewRouter == [kind |-> "router", fn |-> NotDefined]

NoProcessor == [kind |-> NotDefined, fn |-> NotDefined]

\* a builder whose methods never find a value already defined
AlreadyDefinedNever(field) == FALSE

\* this._x !== null
AlreadyDefined(field) == field # NotDefined

\* this._componentInitializers.find((c) => c.name === componentName)
Find(name) ==
    \E i \in DOMAIN componentInitializers : componentInitializers[i].name = name

Called(method, arg, name, threw) ==
    [method |-> method, arg |-> arg, name |-> name, threw |-> threw]

\* builder.withEnvironment(environment)
WithEnvironment ==
    \E e \in Environments \cup {Invalid} :
        /\ IF e = Invalid \/ AlreadyDefined(environment)
           THEN /\ lastCall' = Called("withEnvironment", e, "", TRUE)
                /\ UNCHANGED environment
           ELSE /\ lastCall' = Called("withEnvironment", e, "", FALSE)
                /\ environment' = e
        /\ UNCHANGED <<messageExtractor, messageProcessor, outputTransformer,
                       componentInitializers, notBuilder>>

\* builder.usingMessageExtractor(messageExtractor)
UsingMessageExtractor ==
    \E f \in Functions \cup {Invalid} :
        /\ IF f = Invalid \/ AlreadyDefined(messageExtractor)
           THEN /\ lastCall' = Called("usingMessageExtractor", f, "", TRUE)
                /\ UNCHANGED messageExtractor
           ELSE /\ lastCall' = Called("usingMessageExtractor", f, "", FALSE)
                /\ messageExtractor' = f
        /\ UNCHANGED <<environment, messageProcessor, outputTransformer,
                       componentInitializers, notBuilder>>

\* builder.usingMessageProcessor(messageProcessor)
UsingMessageProcessor ==
    \E f \in Functions \cup {Invalid} :
        /\ IF f = Invalid \/ AlreadyDefined(messageProcessor.kind)
           THEN /\ lastCall' = Called("usingMessageProcessor", f, "", TRUE)
                /\ UNCHANGED messageProcessor
           ELSE /\ lastCall' = Called("usingMessageProcessor", f, "", FALSE)
                /\ messageProcessor' = FromFunction(f)
        /\ UNCHANGED <<environment, messageExtractor, outputTransformer,
                       componentInitializers, notBuilder>>

\* builder.usingMessageRouter(callback): the router is assigned before the
\* callback is called, and the callback returns or throws
UsingMessageRouter ==
    \E f \in Functions \cup {Invalid} :
        /\ IF f = Invalid \/ AlreadyDefined(messageProcessor.kind)
           THEN /\ lastCall' = Called("usingMessageRouter", f, "", TRUE)
                /\ UNCHANGED messageProcessor
           ELSE /\ \E threw \in BOOLEAN :
                    lastCall' = Called("usingMessageRouter", f, "", threw)
                /\ messageProcessor' = NewRouter
        /\ UNCHANGED <<environment, messageExtractor, outputTransformer,
                       componentInitializers, notBuilder>>

\* builder.usingOutputProcessor(outputTransformer)
UsingOutputProcessor ==
    \E f \in Functions \cup {Invalid} :
        /\ IF f = Invalid \/ AlreadyDefined(outputTransformer)
           THEN /\ lastCall' = Called("usingOutputProcessor", f, "", TRUE)
                /\ UNCHANGED outputTransformer
           ELSE /\ lastCall' = Called("usingOutputProcessor", f, "", FALSE)
                /\ outputTransformer' = f
        /\ UNCHANGED <<environment, messageExtractor, messageProcessor,
                       componentInitializers, notBuilder>>

\* builder.usingComponentInitializer(componentInitializer, componentName)
UsingComponentInitializer ==
    \E f \in Functions \cup {Invalid}, n \in ComponentNames :
        /\ IF f = Invalid \/ Find(n)
           THEN /\ lastCall' = Called("usingComponentInitializer", f, n, TRUE)
                /\ UNCHANGED componentInitializers
           ELSE /\ lastCall' = Called("usingComponentInitializer", f, n, FALSE)
                /\ componentInitializers' =
                     Append(componentInitializers, [name |-> n, initializer |-> f])
        /\ UNCHANGED <<environment, messageExtractor, messageProcessor,
                       outputTransformer, notBuilder>>

NotCalled == [method |-> "none", arg |-> "", name |-> "", threw |-> FALSE]

\* new LambdaBuilder()
NewBuilder ==
    /\ environment = NotDefined
    /\ messageExtractor = NotDefined
    /\ messageProcessor = NoProcessor
    /\ outputTransformer = NotDefined
    /\ componentInitializers = <<>>
    /\ lastCall = NotCalled

\* ------------------------------------------------------------ LambdaBuilder
\* what a component initializer resolves with: an object that has a dispose
\* function, an object that has none, or null
ComponentKinds == {"disposable", "plain", "null"}

\* what the message extractor resolves with
Extractions ==
    {[shape |-> "null", count |-> 0], [shape |-> "undefined", count |-> 0],
     [shape |-> "single", count |-> 1]}
    \cup {[shape |-> "array", count |-> n] : n \in 0..MaxMessages}

\* the builder's configuration when build() is called
Builders ==
    [initializers : UNION {[1..n -> ComponentKinds] : n \in 0..MaxComponents},
     extraction : Extractions,
     transformer : BOOLEAN]

\* the length of messagesToProcess: the messages if they are an array,
\* otherwise the array of the one message
MessagesToProcess(extraction) ==
    IF extraction.shape = "array" THEN extraction.count ELSE 1

NoMessages(extraction) == extraction.shape \in {"null", "undefined"}

\* a Promise.all that does not wait
AllOrNone(states, s) == TRUE

All(states, s) == \A i \in DOMAIN states : states[i] = s

Some(states, s) == \E i \in DOMAIN states : states[i] = s

\* the handler is invoked: (event, context, callback) => ...
Invoke ==
    /\ phase = "idle"
    /\ phase' = "extract"
    /\ UNCHANGED <<builder, initializing, components, disposals, messages,
                   processed, runResults, output, callbacks, notLambda>>

\* first then(): messageExtractor(event) gives the messages, or fails
Extract ==
    /\ phase = "extract"
    /\ \/ phase' = "extracted"
       \/ phase' = "caught"
    /\ UNCHANGED <<builder, initializing, components, disposals, messages,
                   processed, runResults, output, callbacks, notLambda>>

\* second then(): every component initializer is scheduled
Initialize ==
    /\ phase = "extracted"
    /\ phase' = "initialize"
    /\ initializing' = TRUE
    /\ UNCHANGED <<builder, components, disposals, messages,
                   processed, runResults, output, callbacks, notLambda>>

\* ci.initializer(environment) resolves with its component, or fails
InitializeComponent ==
    /\ initializing
    /\ \E i \in DOMAIN components :
        /\ components[i] = "pending"
        /\ \E s \in {"initialized", "failed"} :
            components' = [components EXCEPT ![i] = s]
    /\ UNCHANGED <<builder, phase, initializing, disposals, messages,
                   processed, runResults, output, callbacks, notLambda>>

\* Promise.all of the initializers rejects with the first failure
InitializeFailed ==
    /\ phase = "initialize"
    /\ Some(components, "failed")
    /\ phase' = "caught"
    /\ UNCHANGED <<builder, initializing, components, disposals, messages,
                   processed, runResults, output, callbacks, notLambda>>

\* third then(): without messages the run goes on, otherwise
\* messageProcessor.process is called for each message
Process ==
    /\ phase = "initialize"
    /\ All(components, "initialized")
    /\ IF NoMessages(builder.extraction)
       THEN /\ phase' = "dispose"
            /\ UNCHANGED <<messages, processed>>
       ELSE /\ phase' = "process"
            /\ messages' = [j \in 1..MessagesToProcess(builder.extraction)
                              |-> "processing"]
            /\ processed' = processed + MessagesToProcess(builder.extraction)
    /\ UNCHANGED <<builder, initializing, components, disposals,
                   runResults, output, callbacks, notLambda>>

\* the promise of one messageProcessor.process call settles
ProcessMessage ==
    /\ \E j \in DOMAIN messages :
        /\ messages[j] = "processing"
        /\ \E s \in {"processed", "failed"} :
            messages' = [messages EXCEPT ![j] = s]
    /\ UNCHANGED <<builder, phase, initializing, components, disposals,
                   processed, runResults, output, callbacks, notLambda>>

\* Promise.all of the process calls rejects with the first failure
ProcessFailed ==
    /\ phase = "process"
    /\ Some(messages, "failed")
    /\ phase' = "caught"
    /\ UNCHANGED <<builder, initializing, components, disposals, messages,
                   processed, runResults, output, callbacks, notLambda>>

\* Promise.all of the process calls resolves with the results
ProcessDone ==
    /\ phase = "process"
    /\ All(messages, "processed")
    /\ phase' = "dispose"
    /\ UNCHANGED <<builder, initializing, components, disposals, messages,
                   processed, runResults, output, callbacks, notLambda>>

\* the first component, in registration order, that is null
FirstNull(kinds) ==
    IF \E i \in DOMAIN kinds : kinds[i] = "null"
    THEN CHOOSE i \in DOMAIN kinds :
            /\ kinds[i] = "null"
            /\ \A k \in DOMAIN kinds : kinds[k] = "null" => i <= k
    ELSE Len(kinds) + 1

\* fourth then(): each component that has a dispose function is disposed;
\* reading dispose of a null component throws
DisposeComponents ==
    /\ phase = "dispose"
    /\ disposals' =
        [i \in DOMAIN disposals |->
            IF i < FirstNull(builder.initializers)
               /\ builder.initializers[i] = "disposable"
            THEN disposals[i] + 1 ELSE disposals[i]]
    /\ phase' = IF FirstNull(builder.initializers) <= Len(builder.initializers)
                THEN "caught" ELSE "disposed"
    /\ UNCHANGED <<builder, initializing, components, messages,
                   processed, runResults, output, callbacks, notLambda>>

\* fifth then(): return context.results
Complete ==
    /\ phase = "disposed"
    /\ phase' = "transform"
    /\ runResults' = "results"
    /\ UNCHANGED <<builder, initializing, components, disposals, messages,
                   processed, output, callbacks, notLambda>>

\* a catch() that throws the error again: the rest of the chain is skipped
CaughtRethrows ==
    /\ phase = "caught"
    /\ phase' = "finished"
    /\ UNCHANGED <<builder, initializing, components, disposals, messages,
                   processed, runResults, output, callbacks, notLambda>>

\* catch(): the error is logged and the results are null
Caught ==
    /\ phase = "caught"
    /\ phase' = "transform"
    /\ runResults' = "null"
    /\ UNCHANGED <<builder, initializing, components, disposals, messages,
                   processed, output, callbacks, notLambda>>

\* sixth then(): the output transformer, if any, gives the output; its
\* failure gives null
Transform ==
    /\ phase = "transform"
    /\ phase' = "signal"
    /\ IF builder.transformer
       THEN output' \in {"value", "undefined", "null"}
       ELSE output' = "null"
    /\ UNCHANGED <<builder, initializing, components, disposals, messages,
                   processed, runResults, callbacks, notLambda>>

\* seventh then(): callback(null, output) or callback()
Signal ==
    /\ phase = "signal"
    /\ phase' = "finished"
    /\ callbacks' = Append(callbacks, IF output # "null" THEN output ELSE "nothing")
    /\ UNCHANGED <<builder, initializing, components, disposals, messages,
                   processed, runResults, output, notLambda>>

NoBuilder ==
    [initializers |-> <<>>, extraction |-> [shape |-> "null", count |-> 0],
     transformer |-> FALSE]

\* a handler that has not been invoked
NotInvoked ==
    /\ phase = "idle"
    /\ initializing = FALSE
    /\ components = [i \in DOMAIN builder.initializers |-> "pending"]
    /\ disposals = [i \in DOMAIN builder.initializers |-> 0]
    /\ messages = <<>>
    /\ processed = 0
    /\ runResults = "none"
    /\ output = "none"
    /\ callbacks = <<>>

\* no handler is under test
LambdaIdle ==
    /\ builder = NoBuilder
    /\ NotInvoked
    /\ NewBuilder

NoTable ==
    [name |-> [isString |-> TRUE, length |-> 1],
     keysIsArray |-> TRUE, keys |-> <<>>,
     indicesIsArray |-> TRUE, indices |-> <<>>,
     throughput |-> "ok"]

\* no toTableSchema call has been made
NoSchema == [state |-> "none"]

\* no table is under test
TableIdle ==
    /\ table = NoTable
    /\ outcome = "none"
    /\ schema = NoSchema

Init ==
    /\ ReaderInit
    /\ TableIdle
    /\ SerializerIdle
    /\ ProviderInit
    /\ LambdaIdle

Next == Pull \/ Resolve \/ Reject \/ Tick

Spec == Init /\ [][Next]_vars

\* A consumer that asks for data when the reader is idle or paused and has
\* not signalled the end, and a provider whose scanChunk always succeeds.
LivePull ==
    /\ ~reading
    /\ \A i \in DOMAIN out : out[i].type = "data"
    /\ Read

LiveNext == LivePull \/ Resolve

LiveSpec == Init /\ [][LiveNext]_vars /\ WF_vars(LivePull) /\ WF_vars(Resolve)

\* A consumer that asks for data once and accepts every push, and a provider
\* whose scanChunk always succeeds.
FirstPull ==
    /\ pulls = 0
    /\ Read

Accept == ResolveWith(TRUE)

AcceptNext == FirstPull \/ Accept

AcceptSpec ==
    Init /\ [][AcceptNext]_vars /\ WF_vars(FirstPull) /\ WF_vars(Accept)

\* ----------------------------------------------------- scan reader: claims
RECURSIVE Filter(_, _)
Filter(sq, type) ==
    IF sq = <<>> THEN <<>>
    ELSE IF Head(sq).type = type
         THEN <<Head(sq)>> \o Filter(Tail(sq), type)
         ELSE Filter(Tail(sq), type)

Count(sq, type) == Len(Filter(sq, type))

\* the batches of the non-empty pages among the first n pages, in page order
RECURSIVE NonEmptyPages(_)
NonEmptyPages(n) ==
    IF n = 0 THEN <<>>
    ELSE IF scan[n] # 0
         THEN Append(NonEmptyPages(n - 1), [type |-> "data", page |-> n, count |-> scan[n]])
         ELSE NonEmptyPages(n - 1)

Paused == ~reading /\ ~error /\ lastPush = "declined" /\ Count(out, "end") = 0
Exhausted == ~reading /\ ~error /\ Count(out, "end") >= 1
Errored == error

PullStep == pulls' = pulls + 1
ResolveStep == previous' # previous
DeclineStep ==
    /\ lastPush' = "declined"
    /\ Len(out') = Len(out) + 1
    /\ out'[Len(out')].type = "data"

\* C1: at most one scanChunk call is outstanding at any time, and a pull
\* request that arrives while the reader is reading starts no fetch.
C1_OneFetchOutstanding ==
    [][ /\ Len(pending') <= 1
        /\ (PullStep /\ reading) => (pending' = pending /\ calls' = calls) ]_vars

C1_Witness == reading /\ Len(pending) = 1 /\ pulls >= 2 /\ previous = Null

\* C2: a declined push leaves the reader paused with no fetch outstanding; while
\* it is paused only a pull request makes a scanChunk call, and that call carries
\* the start key of the last fetched page, so that the next page is served.
C2_PauseAndResume ==
    [][ /\ DeclineStep => (Paused' /\ pending' = <<>> /\ calls' = calls)
        /\ Paused => pending = <<>>
        /\ (Paused /\ calls' # calls) =>
              /\ PullStep
              /\ previous = ScanChunk(calls[Len(calls)])
              /\ previous.startKey # NoKey
              /\ calls' = Append(calls, previous)
              /\ pending' = <<previous>>
              /\ ScanChunk(previous).page = previous.page + 1 ]_vars

C2_Witness ==
    /\ lastPush = "declined"
    /\ reading
    /\ Len(calls) >= 2
    /\ pending = <<previous>>

\* C3: once a scanChunk call has failed, the stream holds every batch pushed
\* before the failure, then the end-of-sequence signal, then at most one error,
\* which is delivered by a queued callback exactly once; no batch follows.
C3_ErrorAfterEnd ==
    /\ ~error => (Count(out, "error") = 0 /\ ticks = 0)
    /\ error =>
         /\ Count(out, "error") + ticks = 1
         /\ \E k \in DOMAIN out :
               /\ out[k] = EndSignal
               /\ \A j \in 1..(k - 1) : out[j].type = "data"
               /\ \A j \in (k + 1)..Len(out) : out[j] = ErrorSignal
               /\ SubSeq(out, 1, k - 1) = NonEmptyPages(previous.page)

C3_Witness ==
    /\ error
    /\ ticks = 0
    /\ Len(calls) = 2
    /\ Count(out, "data") = 1
    /\ Count(out, "error") = 1

\* C4: once the reader has failed it stays failed; no scanChunk call is made
\* and no batch is pushed afterwards, and a pull request changes nothing.
C4_ErroredIsTerminal ==
    [][ error =>
          /\ error'
          /\ calls' = calls
          /\ pending' = pending
          /\ Filter(out', "data") = Filter(out, "data")
          /\ PullStep => UNCHANGED <<scan, previous, scanned, reading, error,
                                      pending, calls, out, ticks, lastPush>> ]_vars

C4_Witness == error /\ refused >= 1 /\ ~reading /\ pending = <<>>

\* C5 as stated: a pull request in Exhausted makes no scanChunk call, pushes
\* nothing and does not signal end-of-sequence again.
C5_Original ==
    [][ (Exhausted /\ PullStep) => (calls' = calls /\ out' = out) ]_vars

\* C5 amended: a pull request in Exhausted makes no scanChunk call, pushes no
\* batch and leaves the reader's fields as they were, but it calls push(null)
\* once more.
C5_ExhaustedPull ==
    [][ (Exhausted /\ PullStep) =>
          /\ calls' = calls
          /\ pending' = pending
          /\ out' = Append(out, EndSignal)
          /\ UNCHANGED <<previous, scanned, reading, error, ticks, lastPush>> ]_vars

C5_Witness == ~error /\ ~reading /\ Count(out, "end") >= 2

\* C6: no empty batch is ever pushed; an empty page with a start key pushes
\* nothing and the next page is fetched with that key, an empty page without a
\* start key pushes nothing and signals end-of-sequence.
C6_NoEmptyBatch ==
    [][ /\ \A i \in DOMAIN out' : out'[i].type = "data" => out'[i].count > 0
        /\ (ResolveStep /\ previous'.count = 0) =>
              IF previous'.startKey # NoKey
              THEN /\ out' = out
                   /\ reading'
                   /\ calls' = Append(calls, previous')
                   /\ pending' = <<previous'>>
              ELSE /\ out' = Append(out, EndSignal)
                   /\ ~reading'
                   /\ calls' = calls
                   /\ pending' = <<>> ]_vars

C6_Witness ==
    /\ Len(scan) >= 3
    /\ scan[2] = 0
    /\ scan[Len(scan)] = 0
    /\ previous.page = Len(scan)
    /\ Exhausted

\* C7: the batches are pushed in the order their pages were fetched, the first
\* scanChunk call carries no start key and every later one the start key
\* returned by the page before it.
C7_OrderAndCursor ==
    /\ Filter(out, "data") = NonEmptyPages(previous.page)
    /\ \A k \in DOMAIN calls :
         /\ k = 1 => calls[k] = Null
         /\ k > 1 => /\ calls[k] = ScanChunk(calls[k - 1])
                      /\ calls[k].startKey # NoKey
         /\ ScanChunk(calls[k]).page = k
    /\ previous.page \in {Len(calls), Len(calls) - 1}

C7_Witness ==
    /\ Len(calls) >= 3
    /\ Count(out, "data") >= 2
    /\ lastPush = "declined"
    /\ pulls >= 2

\* C8: with a provider that always succeeds and a consumer that pulls again
\* after every declined push, the reader ends in Exhausted for good, having
\* pushed exactly the non-empty pages and signalled end-of-sequence once.
C8_EventuallyExhausted ==
    <>[](/\ Exhausted
         /\ previous.page = Len(scan)
         /\ Filter(out, "data") = NonEmptyPages(Len(scan))
         /\ Count(out, "end") = 1
         /\ out[Len(out)] = EndSignal)

C8_Witness ==
    /\ Exhausted
    /\ Len(scan) >= 3
    /\ scan[2] = 0
    /\ Count(out, "data") = 2
    /\ lastPush = "declined"
    /\ Count(out, "end") = 1

RECURSIVE Items(_)
Items(sq) == IF sq = <<>> THEN 0 ELSE Head(sq).count + Items(Tail(sq))

AcceptStep ==
    /\ Len(out') > Len(out)
    /\ lastPush' = "accepted"
    /\ \E i \in (Len(out) + 1)..Len(out') : out'[i].type = "data"

\* C17: when a push is accepted and the page carried a start key the next
\* scanChunk call is made in the same step, without a pull request; with a
\* consumer that pulls once and accepts every push and a provider that always
\* succeeds, the scan runs through all its pages to end-of-sequence.
C17_AcceptedPushContinues ==
    /\ [][ (AcceptStep /\ previous'.startKey # NoKey) =>
              /\ pulls' = pulls
              /\ calls' = Append(calls, previous')
              /\ pending' = <<previous'>>
              /\ reading' ]_vars
    /\ <>[](/\ Exhausted
            /\ pulls = 1
            /\ Len(calls) = Len(scan)
            /\ previous.page = Len(scan)
            /\ Filter(out, "data") = NonEmptyPages(Len(scan))
            /\ out[Len(out)] = EndSignal)

C17_Witness ==
    /\ Exhausted
    /\ pulls = 1
    /\ Len(calls) >= 3
    /\ Count(out, "data") >= 2

LastPageReceived == previous # Null /\ previous.startKey = NoKey

\* C18: once a page without a start key has been received no scanChunk call is
\* made again; when the push of that page was declined the reader is paused with
\* no end-of-sequence signalled, and the next pull request signals it without a
\* fetch.
C18_LastPage ==
    [][ /\ LastPageReceived => (calls' = calls /\ pending' = pending)
        /\ (DeclineStep /\ previous'.startKey = NoKey) =>
              (Paused' /\ Count(out', "end") = 0 /\ calls' = calls)
        /\ (Paused /\ LastPageReceived /\ PullStep) =>
              /\ out' = Append(out, EndSignal)
              /\ ~reading'
              /\ Exhausted' ]_vars

C18_Witness ==
    /\ Exhausted
    /\ lastPush = "declined"
    /\ out[Len(out)] = EndSignal
    /\ out[Len(out) - 1].type = "data"
    /\ out[Len(out) - 1].page = Len(scan)
    /\ Count(out, "end") = 1

\* C19: the scanned counter always equals the number of items in the batches
\* pushed so far; it never decreases, and a step that pushes no batch (an
\* empty page, a failed fetch, a pull request) leaves it unchanged.
C19_ScannedCounter ==
    [][ /\ scanned = Items(Filter(out, "data"))
        /\ scanned' = Items(Filter(out', "data"))
        /\ scanned' >= scanned
        /\ Filter(out', "data") = Filter(out, "data") => scanned' = scanned ]_vars

C19_Witness ==
    /\ scanned >= 2
    /\ Count(out, "data") >= 1
    /\ error
    /\ refused >= 1
    /\ \E i \in 1..previous.page : scan[i] = 0

\* ------------------------------------------------------------------ Table
\* An entry of the key array: a Key with its keyType and the name of its
\* attribute, or something that is not a Key.  A Key validates when its
\* attribute has a name.
KeyTypes == {"HASH", "RANGE"}
AttributeNames == {"a", "b", "c", ""}
NotAKey == [isKey |-> FALSE, keyType |-> "none", name |-> ""]
KeyEntries ==
    [isKey : {TRUE}, keyType : KeyTypes, name : AttributeNames] \cup {NotAKey}

\* An entry of the index array: an Index with its name and type, or something
\* that is not an Index.  An Index validates when it has a name.
IndexTypes == {"GLOBAL_SECONDARY", "LOCAL_SECONDARY"}
IndexNames == {"i", "j", ""}
NotAnIndex == [isIndex |-> FALSE, name |-> "", type |-> "none"]
IndexEntries ==
    [isIndex : {TRUE}, name : IndexNames, type : IndexTypes] \cup {NotAnIndex}

\* _name is a string of some length or not a string; _provisionedThroughput
\* validates, does not validate, or was not given to the constructor.
TableNames ==
    {[isString |-> TRUE, length |-> 1],
     [isString |-> TRUE, length |-> 0],
     [isString |-> FALSE, length |-> 0]}
Throughputs == {"ok", "bad", "missing"}

SeqsUpTo(S, n) == UNION {[1..k -> S] : k \in 0..n}

\* The tables with at most m entries in _keys and _indices together; _keys
\* and _indices are arrays of entries or values that are not arrays.
Tables(m) ==
    UNION {[name : TableNames,
            keysIsArray : {TRUE},
            keys : [1..n -> KeyEntries],
            indicesIsArray : {TRUE},
            indices : SeqsUpTo(IndexEntries, m - n),
            throughput : Throughputs] : n \in 0..m}
    \cup
    [name : TableNames,
     keysIsArray : {TRUE},
     keys : SeqsUpTo(KeyEntries, m),
     indicesIsArray : {FALSE},
     indices : {<<>>},
     throughput : Throughputs]
    \cup
    [name : TableNames,
     keysIsArray : {FALSE},
     keys : {<<>>},
     indicesIsArray : {TRUE},
     indices : SeqsUpTo(IndexEntries, m),
     throughput : Throughputs]

\* k.validate()
KeyValidate(k) == k.name # ""

\* i.validate()
IndexValidate(i) == i.name # ""

\* this._provisionedThroughput.validate() returns
ThroughputValidate(pt) == pt = "ok"

\* array.unique(a) of common/lang/array: the items of a without the repeats
\* (each item is kept where it first occurs)
RECURSIVE unique(_)
unique(a) ==
    IF a = <<>> THEN <<>>
    ELSE LET front == SubSeq(a, 1, Len(a) - 1)
             last == a[Len(a)]
         IN  IF \E i \in DOMAIN front : front[i] = last
             THEN unique(front)
             ELSE Append(unique(front), last)

\* the truth value JavaScript gives an array in a condition: every array,
\* the empty one included, is truthy
Truthy(a) == TRUE

\* this._keys.map(k => k.attribute.name)
KeyNameList(t) == [i \in DOMAIN t.keys |-> t.keys[i].name]

\* this._indices.map(i => i.name)
IndexNameList(t) == [i \in DOMAIN t.indices |-> t.indices[i].name]

\* this._keys.filter(k => k.keyType === KeyType.HASH).length
HashKeys(t) == Cardinality({i \in DOMAIN t.keys : t.keys[i].keyType = "HASH"})

\* a check that only asks for some hash key
SomeHashKey(t) == HashKeys(t) >= 1

\* this._keys.filter(k => k.keyType === KeyType.HASH).length !== 1 is false
OneHashKey(t) == HashKeys(t) = 1

\* !is.string(this._name) || this._name.length < 1 is false
NameValid(t) == t.name.isString /\ t.name.length >= 1

\* this._keys.every(k => k instanceof Key)
OnlyKeys(t) == \A i \in DOMAIN t.keys : t.keys[i].isKey

\* this._indices.every(i => i instanceof Index)
OnlyIndices(t) == \A i \in DOMAIN t.indices : t.indices[i].isIndex

\* Table.validate(): "ok" when it returns, otherwise the error it throws
Validate(t) ==
    IF ~NameValid(t) THEN "Table name is invalid."
    ELSE IF ~t.keysIsArray THEN "Table must have an array of keys."
    ELSE IF ~OnlyKeys(t)
         THEN "Table key array can only contain Key instances."
    ELSE IF ~OneHashKey(t) THEN "Table must have one hash key."
    ELSE IF ~Truthy(unique(KeyNameList(t)))
         THEN "Table key names must be unique (only one key with a given name)."
    ELSE IF ~t.indicesIsArray THEN "Table must have an array of indicies."
    ELSE IF ~OnlyIndices(t)
         THEN "Table indicies array can only contain Index instances."
    ELSE IF ~Truthy(unique(IndexNameList(t)))
         THEN "Table index names must be unique (only one index with a given name)."
    ELSE IF \E i \in DOMAIN t.keys : ~KeyValidate(t.keys[i])
         THEN "Key is invalid."
    ELSE IF \E i \in DOMAIN t.indices : ~IndexValidate(t.indices[i])
         THEN "Index is invalid."
    ELSE IF t.throughput = "missing" THEN "TypeError"
    ELSE IF ~ThroughputValidate(t.throughput) THEN "Throughput is invalid."
    ELSE "ok"

\* a caller runs table.validate()
CallValidate ==
    /\ outcome = "none"
    /\ outcome' = Validate(table)
    /\ UNCHANGED <<table, schema, notTable>>

\* this._indices.filter(i => i.type === type)
IndicesOfType(t, type) == SelectSeq(t.indices, LAMBDA i : i.type = type)

\* a projection that sets the index fields whatever the table has
IncludeAlways(list) == TRUE

\* globalIndicies.length !== 0, localIndicies.length !== 0
Include(list) == Len(list) # 0

\* k.attribute.toAttributeSchema()
ToAttributeSchema(k) == [AttributeName |-> k.name]

\* k.toKeySchema()
ToKeySchema(k) == [AttributeName |-> k.name, KeyType |-> k.keyType]

\* i.toIndexSchema()
ToIndexSchema(i) == [IndexName |-> i.name]

\* a projection that also defines an attribute for each index
KeyAndIndexAttributeDefinitions(t) ==
    [i \in DOMAIN t.keys |-> ToAttributeSchema(t.keys[i])]
    \o [i \in DOMAIN t.indices |-> [AttributeName |-> t.indices[i].name]]

\* this._keys.map(k => k.attribute.toAttributeSchema())
KeyAttributeDefinitions(t) ==
    [i \in DOMAIN t.keys |-> ToAttributeSchema(t.keys[i])]

\* toTableSchema() threw
Threw == [state |-> "threw"]

\* the object built by toTableSchema() after validate() returned; fields holds
\* the names of the optional properties that were set
TableSchema(t) ==
    LET globalIndicies == IndicesOfType(t, "GLOBAL_SECONDARY")
        localIndicies == IndicesOfType(t, "LOCAL_SECONDARY")
    IN  [state |-> "returned",
         AttributeDefinitions |-> KeyAttributeDefinitions(t),
         KeySchema |-> [i \in DOMAIN t.keys |-> ToKeySchema(t.keys[i])],
         fields |->
             (IF Include(globalIndicies) THEN {"GlobalSecondaryIndexes"} ELSE {})
             \cup
             (IF Include(localIndicies) THEN {"LocalSecondaryIndexes"} ELSE {}),
         GlobalSecondaryIndexes |->
             IF Include(globalIndicies)
             THEN [i \in DOMAIN globalIndicies |-> ToIndexSchema(globalIndicies[i])]
             ELSE <<>>,
         LocalSecondaryIndexes |->
             IF Include(localIndicies)
             THEN [i \in DOMAIN localIndicies |-> ToIndexSchema(localIndicies[i])]
             ELSE <<>>]

\* Table.toTableSchema()
ToTableSchema(t) == IF Validate(t) = "ok" THEN TableSchema(t) ELSE Threw

\* a caller runs table.toTableSchema()
CallToTableSchema ==
    /\ outcome = "none"
    /\ outcome' = Validate(table)
    /\ schema' = ToTableSchema(table)
    /\ UNCHANGED <<table, notTable>>

\* new Table(name, keys, indicies, provisionedThroughput)
TableInit ==
    /\ table \in Tables(MaxEntries)
    /\ outcome = "none"
    /\ schema = NoSchema

NoReader ==
    /\ scan = <<0>>
    /\ previous = Null
    /\ scanned = 0
    /\ reading = FALSE
    /\ error = FALSE
    /\ pending = <<>>
    /\ calls = <<>>
    /\ out = <<>>
    /\ ticks = 0
    /\ pulls = 0
    /\ lastPush = "none"
    /\ refused = 0

TableSpecInit ==
    NoReader /\ TableInit /\ SerializerIdle /\ ProviderInit /\ LambdaIdle

TableNext == CallValidate \/ CallToTableSchema

TableSpec == TableSpecInit /\ [][TableNext]_vars

\* new XSerializer(attribute), and the value the caller holds
SerializerInit ==
    /\ serializer \in [class : SerializerClasses, attribute : Attributes]
    /\ input \in Strings
    /\ serialized = NotSerialized
    /\ deserialized = NotDeserialized

SerializerSpecInit ==
    NoReader /\ TableIdle /\ SerializerInit /\ ProviderInit /\ LambdaIdle

SerializerNext == Serialize \/ Deserialize \/ DeserializeStored

SerializerSpec == SerializerSpecInit /\ [][SerializerNext]_vars

ProviderSpecInit ==
    NoReader /\ TableIdle /\ SerializerIdle /\ ProviderInit /\ LambdaIdle

ProviderNext ==
    \/ Start \/ StartAcquire \/ StartComplete \/ StartResolve \/ StartCatch
    \/ Dispose \/ GetTables \/ GetTablesCheck \/ ListTablesError
    \/ ListTablesMore \/ ListTablesLast \/ Concat

ProviderSpec == ProviderSpecInit /\ [][ProviderNext]_vars

\* A run in which every callback that is due does run and every listTables
\* call is answered.
ListTablesReply == ListTablesError \/ ListTablesMore \/ ListTablesLast

ProviderLiveSpec ==
    /\ ProviderSpecInit
    /\ [][ProviderNext]_vars
    /\ WF_vars(GetTablesCheck)
    /\ WF_vars(ListTablesReply)
    /\ WF_vars(Concat)

\* builder.build()
LambdaInit ==
    /\ builder \in Builders
    /\ NotInvoked
    /\ NewBuilder

LambdaSpecInit ==
    NoReader /\ TableIdle /\ SerializerIdle /\ ProviderInit /\ LambdaInit

LambdaNext ==
    \/ Invoke \/ Extract \/ Initialize \/ InitializeComponent
    \/ InitializeFailed \/ Process \/ ProcessMessage \/ ProcessFailed
    \/ ProcessDone \/ DisposeComponents \/ Complete \/ Caught \/ Transform
    \/ Signal

LambdaSpec == LambdaSpecInit /\ [][LambdaNext]_vars

BuilderSpecInit ==
    NoReader /\ TableIdle /\ SerializerIdle /\ ProviderInit /\ LambdaIdle

BuilderNext ==
    \/ WithEnvironment \/ UsingMessageExtractor \/ UsingMessageProcessor
    \/ UsingMessageRouter \/ UsingOutputProcessor \/ UsingComponentInitializer

BuilderSpec == BuilderSpecInit /\ [][BuilderNext]_vars

\* A run in which the handler is invoked, every promise of the extractor, of
\* the initializers, of the processor and of the transformer settles, and
\* every callback that is due runs.
LambdaLiveSpec == LambdaSpecInit /\ [][LambdaNext]_vars /\ WF_vars(LambdaNext)

\* ------------------------------------------------------------ Table: claims
RangeKeys(t) == Cardinality({i \in DOMAIN t.keys : t.keys[i].keyType = "RANGE"})

Duplicates(a) == \E i, j \in DOMAIN a : i # j /\ a[i] = a[j]

\* C9: validate() throws for every table with no HASH key, with more than one
\* HASH key, with two keys of the same attribute name, with two indices of the
\* same name, or with an entry in its key array that is not a Key.
C9_ValidateRejects ==
    (/\ outcome # "none"
     /\ \/ HashKeys(table) = 0
        \/ HashKeys(table) > 1
        \/ Duplicates(KeyNameList(table))
        \/ Duplicates(IndexNameList(table))
        \/ ~OnlyKeys(table))
    => outcome # "ok"

\* C10 as stated: a table accepted by validate() has exactly one HASH key and
\* at most one RANGE key.
C10_Original ==
    outcome = "ok" => (HashKeys(table) = 1 /\ RangeKeys(table) <= 1)

\* C10 amended: a table accepted by validate() has exactly one HASH key, and
\* every entry of its key array is a Key; the RANGE keys are not counted.
C10_OneHashKey ==
    outcome = "ok" => (HashKeys(table) = 1 /\ OnlyKeys(table))

C10_Witness ==
    /\ outcome = "ok"
    /\ HashKeys(table) = 1
    /\ RangeKeys(table) = 2
    /\ ~Duplicates(KeyNameList(table))

\* C11: the schema toTableSchema() returns has the GlobalSecondaryIndexes
\* property exactly when the table has a GLOBAL_SECONDARY index, and the
\* LocalSecondaryIndexes property exactly when it has a LOCAL_SECONDARY index;
\* a property that is set holds one entry for each index of its type.
C11_IndexFields ==
    schema.state = "returned" =>
        \A f \in {<<"GlobalSecondaryIndexes", "GLOBAL_SECONDARY">>,
                  <<"LocalSecondaryIndexes", "LOCAL_SECONDARY">>} :
            LET ofType == {i \in DOMAIN table.indices : table.indices[i].type = f[2]}
                value == IF f[1] = "GlobalSecondaryIndexes"
                         THEN schema.GlobalSecondaryIndexes
                         ELSE schema.LocalSecondaryIndexes
            IN  /\ f[1] \in schema.fields <=> ofType # {}
                /\ f[1] \in schema.fields =>
                     /\ Len(value) >= 1
                     /\ Len(value) = Cardinality(ofType)
                     /\ value = [i \in DOMAIN value |->
                                   ToIndexSchema(IndicesOfType(table, f[2])[i])]

C11_Witness ==
    /\ schema.state = "returned"
    /\ schema.fields = {"GlobalSecondaryIndexes"}
    /\ Len(schema.GlobalSecondaryIndexes) = 2
    /\ Len(table.keys) = 2

\* the invariants of a table as the specification lists them
SpecValid(t) ==
    /\ NameValid(t)
    /\ t.keysIsArray /\ t.keys # <<>> /\ OnlyKeys(t)
    /\ HashKeys(t) = 1
    /\ ~Duplicates(KeyNameList(t))
    /\ t.indicesIsArray /\ OnlyIndices(t)
    /\ ~Duplicates(IndexNameList(t))
    /\ \A i \in DOMAIN t.keys : KeyValidate(t.keys[i])
    /\ \A i \in DOMAIN t.indices : IndexValidate(t.indices[i])
    /\ t.throughput = "ok"

\* C12: toTableSchema() throws and returns no schema for every table that
\* violates an invariant of validate().
C12_SchemaOnlyForValidTables ==
    (schema.state # "none" /\ ~SpecValid(table)) => schema = Threw

\* the first invariant a table violates, in the documented order
FirstViolated(t) ==
    IF ~NameValid(t) THEN "name"
    ELSE IF ~OnlyKeys(t) THEN "keys"
    ELSE IF HashKeys(t) # 1 THEN "hash"
    ELSE IF Duplicates(KeyNameList(t)) THEN "keyNames"
    ELSE IF Duplicates(IndexNameList(t)) THEN "indexNames"
    ELSE IF \/ \E i \in DOMAIN t.keys : ~KeyValidate(t.keys[i])
            \/ \E i \in DOMAIN t.indices : ~IndexValidate(t.indices[i])
         THEN "entries"
    ELSE IF t.throughput # "ok" THEN "throughput"
    ELSE "ok"

\* the invariant an error of validate() names
Reported(msg) ==
    CASE msg = "Table name is invalid." -> "name"
      [] msg = "Table must have an array of keys." -> "keys"
      [] msg = "Table key array can only contain Key instances." -> "keys"
      [] msg = "Table must have one hash key." -> "hash"
      [] msg = "Table key names must be unique (only one key with a given name)."
           -> "keyNames"
      [] msg = "Table must have an array of indicies." -> "indices"
      [] msg = "Table indicies array can only contain Index instances." -> "indices"
      [] msg = "Table index names must be unique (only one index with a given name)."
           -> "indexNames"
      [] msg = "Key is invalid." -> "entries"
      [] msg = "Index is invalid." -> "entries"
      [] msg = "TypeError" -> "throughput"
      [] msg = "Throughput is invalid." -> "throughput"
      [] OTHER -> "ok"

\* C20: for a table whose _keys and _indices are arrays and whose indices are
\* Index instances, validate() reports the first invariant violated in the
\* order: name, Key instances, one HASH key, unique key names, unique index
\* names, validation of the keys and indices, provisioned throughput.
C20_FirstViolation ==
    (/\ outcome # "none"
     /\ schema = NoSchema
     /\ table.keysIsArray /\ table.indicesIsArray /\ OnlyIndices(table))
    => Reported(outcome) = FirstViolated(table)


\* ------------------------------------------------------ serializers: claims
HasEncryptor(s) == s.attribute.encryptor # NoEncryptor

\* C13: an EncryptedStringSerializer whose attribute has an encryptor
\* serializes a string into a record with the single tag B that holds a
\* buffer of bytes, and deserializing that record returns the string.
C13_StringRoundTrip ==
    (/\ serializer.class = "EncryptedStringSerializer"
     /\ HasEncryptor(serializer)
     /\ serialized # NotSerialized)
    => /\ DOMAIN serialized = {"tag", "B"}
       /\ serialized.tag = "B"
       /\ serialized.B \in Seq(0..255)
       /\ deserialized # NotDeserialized => deserialized = Returned(input)

C13_Witness ==
    /\ serializer.class = "EncryptedStringSerializer"
    /\ HasEncryptor(serializer)
    /\ serialized.tag = "B"
    /\ Len(input) = MaxStrLen
    /\ \E i \in DOMAIN input : input[i] > 127
    /\ deserialized = Returned(input)

C15_StartOnce ==
    /\ [](/\ dynamo <= 1
          /\ promises <= 1
          /\ \A i \in DOMAIN starts :
                ~starts[i].threw => starts[i].promise = startPromise
          /\ \A i, j \in DOMAIN starts :
                (~starts[i].threw /\ ~starts[j].threw)
                    => starts[i].promise = starts[j].promise)
    /\ [][(disposed /\ Len(starts') > Len(starts))
            => starts'[Len(starts')].threw]_vars

C15_Witness ==
    /\ dynamo = 1
    /\ Len(starts) >= 3
    /\ ~starts[1].threw /\ starts[1].stage = "none"
    /\ ~starts[2].threw /\ starts[2].stage = "created"
    /\ starts[3].threw


\* --------------------------------------------------------- lambda: claims
\* C16: when the completion callback is invoked, each component that has
\* been initialized and has a dispose function has been disposed exactly
\* once, and no component is ever disposed twice.
C16_DisposedBeforeCallback ==
    /\ [](\A i \in DOMAIN disposals : disposals[i] <= 1)
    /\ [][Len(callbacks') > Len(callbacks) =>
            \A i \in DOMAIN components :
                (/\ components[i] = "initialized"
                 /\ builder.initializers[i] = "disposable")
                => disposals[i] = 1]_vars


\* ------------------------------------------------------ Table: wire schema
\* C21: a schema that toTableSchema() returns has one attribute definition and
\* one key-schema entry for each key of the table, in the order of the keys,
\* whatever the number of indices.
C21_OnePerKey ==
    schema.state = "returned" =>
        /\ Len(schema.AttributeDefinitions) = Len(table.keys)
        /\ Len(schema.KeySchema) = Len(table.keys)
        /\ \A i \in DOMAIN table.keys :
            /\ schema.AttributeDefinitions[i].AttributeName = table.keys[i].name
            /\ schema.KeySchema[i].AttributeName = table.keys[i].name
            /\ schema.KeySchema[i].KeyType = table.keys[i].keyType

C21_Witness ==
    /\ schema.state = "returned"
    /\ SpecValid(table)
    /\ Len(table.keys) = 2
    /\ table.keys[1].keyType = "HASH"
    /\ table.keys[2].keyType = "RANGE"
    /\ Len(IndicesOfType(table, "GLOBAL_SECONDARY")) = 1
    /\ Len(table.indices) = 1


\* --------------------------------------------------- provider: getTables
\* the step in which the callback of getTables() makes its two tests
ChecksTables == request = "called" /\ request' # "called"

RejectsWithoutCall(message) ==
    /\ request' = "rejected"
    /\ tablesOutcome' = TablesRejected(message)
    /\ listCalls' = <<>>

\* C22 as stated: getTables() rejects with 'has been disposed' and calls
\* nothing when the provider is disposed, and rejects with 'has not been
\* started' and calls nothing when start() was never called or the promise
\* it returned has not resolved.
C22_Original ==
    [][ChecksTables =>
        /\ disposed => RejectsWithoutCall("The Dynamo Provider has been disposed.")
        /\ (~disposed /\ stage # "resolved")
            => RejectsWithoutCall("The Dynamo Provider has not been started.")]_vars

\* C22: getTables() rejects with 'has been disposed' and calls nothing when
\* the provider is disposed when its callback runs; otherwise it rejects
\* with 'has not been started' and calls nothing when _started is not set,
\* that is when start() was never called, failed, or has not yet run its
\* second callback; no listTables call is made before the tests passed.
C22_RejectsUnlessStarted ==
    /\ [][ChecksTables =>
            /\ disposed
                => RejectsWithoutCall("The Dynamo Provider has been disposed.")
            /\ (~disposed /\ ~started)
                => RejectsWithoutCall("The Dynamo Provider has not been started.")]_vars
    /\ [](request \in {"none", "called"} => listCalls = <<>>)

C22_Witness ==
    /\ tablesOutcome = TablesRejected("The Dynamo Provider has not been started.")
    /\ listCalls = <<>>
    /\ ~disposed
    /\ stage = "acquired"
    /\ Len(starts) >= 1


\* the names of the pages one after the other
RECURSIVE Flatten(_)
Flatten(pages) ==
    IF pages = <<>> THEN <<>> ELSE Head(pages) \o Flatten(Tail(pages))

\* C23: the promise of a getTables() call settles; when it resolves, every
\* listTables call was answered with a page and it resolves with the names
\* of all pages that start with the prefix, in page order.
C23_AlwaysSettles ==
    /\ [](tablesOutcome.state = "resolved" =>
            /\ Len(listed) = Len(listCalls)
            /\ tablesOutcome.tables = Matches(Flatten(listed)))
    /\ (request = "called") ~> (request \in {"resolved", "rejected"})


\* C24: in a run of the handler the completion callback is invoked, and once
\* only, whichever of the extractor, the initializers, the processor and the
\* transformer fail; it is given an output exactly when there is an output
\* transformer and it produced a value other than null.
C24_CallbackOnce ==
    /\ [](Len(callbacks) <= 1)
    /\ [](Len(callbacks) = 1 =>
            /\ callbacks[1] # "nothing" <=> output # "null"
            /\ callbacks[1] # "nothing" => builder.transformer /\ callbacks[1] = output)
    /\ (phase = "extract") ~> (Len(callbacks) = 1)

C24_Witness ==
    /\ phase = "finished"
    /\ runResults = "null"
    /\ Some(messages, "failed")
    /\ callbacks = <<"value">>

\* the number of messages in an extraction result
Extracted(extraction) ==
    CASE extraction.shape = "array" -> extraction.count
      [] extraction.shape = "single" -> 1
      [] OTHER -> 0

\* C25: the message processor is invoked only in the step that follows the
\* resolution of every component initializer, once for each extracted
\* message; it is never invoked again, and never when an initializer failed
\* before that step.
C25_ProcessedOncePerMessage ==
    /\ [][processed' # processed =>
            /\ processed = 0
            /\ All(components, "initialized")
            /\ processed' = Extracted(builder.extraction)]_vars
    /\ [](Some(components, "failed") => processed = 0)
    /\ [](phase \in {"dispose", "disposed"} =>
            processed = Extracted(builder.extraction))

C25_Witness ==
    /\ builder.extraction.shape = "single"
    /\ Len(components) = MaxComponents
    /\ processed = 1
    /\ phase = "finished"


\* ------------------------------------------------------- builder: claims
\* the value that a set-once method finds already defined
Defined(method, name) ==
    CASE method = "withEnvironment" -> environment # NotDefined
      [] method = "usingMessageExtractor" -> messageExtractor # NotDefined
      [] method = "usingMessageProcessor" -> messageProcessor # NoProcessor
      [] method = "usingMessageRouter" -> messageProcessor # NoProcessor
      [] method = "usingOutputProcessor" -> outputTransformer # NotDefined
      [] method = "usingComponentInitializer" ->
            name \in {componentInitializers[i].name : i \in DOMAIN componentInitializers}
      [] OTHER -> FALSE

\* C26: a call of withEnvironment, usingMessageExtractor or
\* usingOutputProcessor when its value is already defined, of
\* usingMessageProcessor or usingMessageRouter when a processor or a router is
\* already defined, and of usingComponentInitializer with a registered name
\* throws and changes nothing in the builder's configuration.
C26_SetOnce ==
    [][(lastCall' # lastCall \/ configuration' # configuration)
        /\ Defined(lastCall'.method, lastCall'.name)
        => lastCall'.threw /\ configuration' = configuration]_vars

C26_Witness ==
    /\ lastCall.method = "usingMessageRouter"
    /\ lastCall.arg # Invalid
    /\ lastCall.threw
    /\ messageProcessor.kind = "processor"
    /\ Len(componentInitializers) = 2
    /\ environment # NotDefined

====
